---- MODULE Spec2Model ----
(***************************************************************************)
(* Model of exchangeAppGUI.py: a Tk window with three panels (Convert,     *)
(* Get exchange rate, Check API quota), the one-shot `after` timers that   *)
(* clear the three display labels, the rates dialog and the remote API.    *)
(*                                                                         *)
(* Text is a sequence of one-character strings, so that upper(), the       *)
(* f-strings, str(dict), re.sub and strip() are computed character by      *)
(* character.  Time is counted in units of 1000 ms.  The event loop is     *)
(* single-threaded: every handler runs to completion as one step, and a    *)
(* timer callback runs as soon as its delay has elapsed (time does not     *)
(* advance past a due timer; the duration of a blocking request is below   *)
(* the resolution of the clock).                                           *)
(***************************************************************************)
EXTENDS Naturals, Sequences, FiniteSets

VARIABLES entry, label, timers, dialogs, event, lastmsg, panel

vars == <<entry, label, timers, dialogs, event, lastmsg, panel>>

-----------------------------------------------------------------------------
(* Bounds of the model *)

MaxTimers == 2
MaxDialogs == 1

-----------------------------------------------------------------------------
(* Text helpers *)

Lower == <<"a", "b", "c", "d", "e", "f", "g", "h", "i", "j", "k", "l", "m", "n", "o", "p", "q", "r", "s", "t", "u", "v", "w", "x", "y", "z">>
Upper == <<"A", "B", "C", "D", "E", "F", "G", "H", "I", "J", "K", "L", "M", "N", "O", "P", "Q", "R", "S", "T", "U", "V", "W", "X", "Y", "Z">>
Digits == <<"0", "1", "2", "3", "4", "5", "6", "7", "8", "9">>

upperChar(c) ==
    IF \E i \in 1..Len(Lower) : Lower[i] = c
    THEN Upper[CHOOSE i \in 1..Len(Lower) : Lower[i] = c]
    ELSE c

\* the text as typed, upper() forgotten
upper_asTyped(s) == s

\* str.upper()
upper(s) == [i \in 1..Len(s) |-> upperChar(s[i])]

\* str(n) for a non-negative int
RECURSIVE strInt(_)
strInt(n) == IF n < 10 THEN <<Digits[n + 1]>> ELSE strInt(n \div 10) \o <<Digits[(n % 10) + 1]>>

\* str(x) for a float x = t / 10 (one decimal place), e.g. 905 -> "90.5", 10 -> "1.0"
strFloat(t) == strInt(t \div 10) \o <<".">> \o strInt(t % 10)

\* a pattern that misses the closing brace: re.sub(r"[{']", "", s)
subBracesQuotes_noClosing(s) == SelectSeq(s, LAMBDA c : c \notin {"{", "'"})

\* re.sub(r"[{}']", "", s)
subBracesQuotes(s) == SelectSeq(s, LAMBDA c : c \notin {"{", "}", "'"})

\* re.sub(r",", "\n", s)
subCommas(s) == [i \in 1..Len(s) |-> IF s[i] = "," THEN "\n" ELSE s[i]]

Whitespace == {" ", "\n", "\t"}

RECURSIVE lstrip(_)
lstrip(s) == IF s # <<>> /\ Head(s) \in Whitespace THEN lstrip(Tail(s)) ELSE s

RECURSIVE rstrip(_)
rstrip(s) ==
    IF s # <<>> /\ s[Len(s)] \in Whitespace THEN rstrip(SubSeq(s, 1, Len(s) - 1)) ELSE s

\* str.strip()
strip(s) == rstrip(lstrip(s))

\* str(d) for a dict d given as the ordered sequence of its <<key, value>> items,
\* keys being str and values float: "{'USD': 1.0, 'EUR': 0.9}"
RECURSIVE strItems(_)
strItems(d) ==
    IF d = <<>> THEN <<>>
    ELSE <<"'">> \o d[1][1] \o <<"'", ":", " ">> \o strFloat(d[1][2])
         \o (IF Len(d) > 1 THEN <<",", " ">> ELSE <<>>) \o strItems(Tail(d))

strDict(d) == <<"{">> \o strItems(d) \o <<"}">>

-----------------------------------------------------------------------------
(* Configuration and widgets *)

\* os.getenv("ADMIN"), os.getenv("PASSWORD")
ADMIN == <<"r", "o", "o", "t">>
PASSWORD == <<"p", "w", "1">>

Entries == {"source_currency_entry", "target_currency_entry", "amount_entry",
            "from_currency_entry", "to_currency_entry",
            "admin_entry", "admin_password_entry"}

Labels == {"display_result", "exchange_rate_label", "quota_label"}

\* the text each label is created with
InitialText ==
    [display_result |-> <<>>,
     exchange_rate_label |-> <<"E", "x", "c", "h", "a", "n", "g", "e", " ", "r", "a", "t", "e", ":">>,
     quota_label |-> <<"Q", "u", "o", "t", "a", ":">>]

\* the delays handed to `after`, in units of 1000 ms
DelayResult == 10
DelayRate == 10
DelayPrompt == 3
DelayQuota == 3
DelayInvalid == 3

InvalidMsg == <<"I", "n", "v", "a", "l", "i", "d", " ", "a", "d", "m", "i", "n", " ", "c", "r", "e", "d", "e", "n", "t", "i", "a", "l", "s", "!">>
PromptMsg == <<"P", "l", "e", "a", "s", "e", " ", "e", "n", "t", "e", "r", " ", "t", "h", "e", " ", "s", "o", "u", "r", "c", "e", " ", "c", "u", "r", "r", "e", "n", "c", "y", "!">>

\* f"Quota: {n} requests remaining"
QuotaText(n) ==
    <<"Q", "u", "o", "t", "a", ":", " ">> \o strInt(n)
    \o <<" ", "r", "e", "q", "u", "e", "s", "t", "s", " ", "r", "e", "m", "a", "i", "n", "i", "n", "g">>

\* f"Exchange rate for {from_currency} to {to_currency}: {exchange_rate}"
RateText(from_currency, to_currency, rate) ==
    <<"E", "x", "c", "h", "a", "n", "g", "e", " ", "r", "a", "t", "e", " ", "f", "o", "r", " ">>
    \o from_currency \o <<" ", "t", "o", " ">> \o to_currency \o <<":", " ">> \o strFloat(rate)

\* f"{from_currency} to {to_currency}: {conversion['conversion_result']}"
ResultText(from_currency, to_currency, result) ==
    from_currency \o <<" ", "t", "o", " ">> \o to_currency \o <<":", " ">> \o strFloat(result)

-----------------------------------------------------------------------------
(* What the user can type and what the API can answer *)

Codes == {<<>>, <<"u", "s", "d">>, <<"E", "u", "r">>}
Amounts == {<<>>, <<"2", ".", "5">>}
Panels == {"convert", "rate", "quota"}

\* what the user may type into an entry
Typed(e) ==
    CASE e = "amount_entry" -> Amounts
      [] e = "admin_entry" -> {<<>>, ADMIN, <<"r", "o", "o", "T">>, <<"r", "o", "o">>}
      [] e = "admin_password_entry" -> {<<>>, PASSWORD, <<"p", "w", "2">>, <<"p", "w", "1", " ">>}
      [] OTHER -> Codes

ConvertEntries == {"source_currency_entry", "target_currency_entry", "amount_entry"}
RateEntries == {"from_currency_entry", "to_currency_entry"}
QuotaEntries == {"admin_entry", "admin_password_entry"}

USD == <<"U", "S", "D">>
EUR == <<"E", "U", "R">>
JPY == <<"J", "P", "Y">>

\* conversion_rates objects, as ordered <<code, rate in tenths>> items
RateMaps == {<<>>,
             << <<USD, 10>> >>,
             << <<EUR, 10>>, <<USD, 11>>, <<JPY, 1605>> >>}

ConversionResults == {905}
QuotaValues == {0, 1499}

NoResponse == [kind |-> "none"]

\* requests.get(...) raises, .json() raises, the body is an error object without
\* the expected key, or the body carries the expected key
Responses(endpoint) ==
    {[kind |-> "transport"], [kind |-> "notjson"], [kind |-> "error"]}
    \cup CASE endpoint = "pair" ->
                {[kind |-> "ok", conversion_result |-> r] : r \in ConversionResults}
           [] endpoint = "latest" ->
                {[kind |-> "ok", conversion_rates |-> m] : m \in RateMaps}
           [] endpoint = "quota" ->
                {[kind |-> "ok", requests_remaining |-> n] : n \in QuotaValues}

HasKey(d, k) == \E i \in 1..Len(d) : d[i][1] = k
Lookup(d, k) == d[CHOOSE i \in 1..Len(d) : d[i][1] = k][2]

-----------------------------------------------------------------------------
(* Python values where the code relies on truthiness *)

PyNone == [type |-> "NoneType"]
PyBool(b) == [type |-> "bool", val |-> b]
PyStr(s) == [type |-> "str", val |-> s]

\* `not v`
Falsy(v) ==
    CASE v.type = "NoneType" -> TRUE
      [] v.type = "bool" -> ~v.val
      [] v.type = "str" -> v.val = <<>>

-----------------------------------------------------------------------------
(* State *)

\* Toplevel windows of class ExchangeRatesDialog that are open
Modal == \E i \in 1..Len(dialogs) : dialogs[i].grab

Event(cmd, out, sent, resp) == [cmd |-> cmd, out |-> out, sent |-> sent, resp |-> resp]

\* any step that is not a command handler
Idle == Event("-", "-", <<>>, NoResponse)

\* lastmsg[l] records the message a handler wrote to label l last: its text, the
\* time left of the delay it was given, and whether no other clear of l was
\* pending when it was written.  status is "none" before any handler has written
\* to l, "shown" until that delay has elapsed and the clears due then have run,
\* and "expired" after that.
NoMsg == [status |-> "none", text |-> <<>>, left |-> 0, solo |-> TRUE]

Init ==
    /\ entry = [e \in Entries |-> <<>>]
    /\ label = InitialText
    /\ timers = <<>>
    /\ dialogs = <<>>
    /\ event = Idle
    /\ lastmsg = [l \in Labels |-> NoMsg]
    /\ panel \in Panels

\* an `after` that first cancels the clears pending on the same label
After_cancelling(ts, l, delay) ==
    SelectSeq(ts, LAMBDA t : t.lbl # l) \o <<[lbl |-> l, rem |-> delay]>>

\* widget.after(ms, callback): the timer queue is kept in order of expiry, a new
\* timer going behind those that expire at the same time
After(ts, l, delay) ==
    LET k == Cardinality({i \in 1..Len(ts) : ts[i].rem <= delay})
    IN SubSeq(ts, 1, k) \o <<[lbl |-> l, rem |-> delay]>> \o SubSeq(ts, k + 1, Len(ts))

Pending(l) == {i \in 1..Len(timers) : timers[i].lbl = l}

\* every clear scheduled after the 3000 ms of the quota panel
Show_shortDelay(l, text, delay) ==
    /\ label' = [label EXCEPT ![l] = text]
    /\ timers' = After(timers, l, DelayQuota)
    /\ lastmsg' = [lastmsg EXCEPT ![l] = [status |-> "shown", text |-> text,
                                          left |-> DelayQuota, solo |-> Pending(l) = {}]]

\* label.config(text=...) followed by label.after(delay, clear)
Show(l, text, delay) ==
    /\ label' = [label EXCEPT ![l] = text]
    /\ timers' = After(timers, l, delay)
    /\ lastmsg' = [lastmsg EXCEPT ![l] = [status |-> "shown", text |-> text, left |-> delay, solo |-> Pending(l) = {}]]

\* the exception a handler raises on this response, if any: requests.get raises,
\* .json() raises, or the subscript raises KeyError
Raises(resp) == resp.kind # "ok"

-----------------------------------------------------------------------------
(* Handlers *)

\* a check that compares the username alone
check_admin_userOnly ==
    IF entry["admin_entry"] = ADMIN THEN PyBool(TRUE) ELSE PyNone

check_admin ==
    LET admin_username == entry["admin_entry"]
        admin_password == entry["admin_password_entry"]
    IN IF admin_username = ADMIN /\ admin_password = PASSWORD THEN PyBool(TRUE) ELSE PyNone

\* get_api_quota, credentials refused: the message, its clear, return
QuotaInvalid ==
    /\ Show("quota_label", InvalidMsg, DelayInvalid)
    /\ event' = Event("get_api_quota", "invalid", <<>>, NoResponse)
    /\ UNCHANGED <<entry, dialogs>>

\* a fetch that empties the two entries before it sends the request
QuotaFetch_clearsFirst ==
    \E quota \in Responses("quota") :
      LET req == [endpoint |-> "quota", args |-> <<>>]
      IN /\ entry' = [entry EXCEPT !["admin_entry"] = <<>>, !["admin_password_entry"] = <<>>]
         /\ IF Raises(quota)
            THEN /\ event' = Event("get_api_quota", "fault", <<req>>, quota)
                 /\ UNCHANGED <<label, timers, dialogs, lastmsg>>
            ELSE /\ Show("quota_label", QuotaText(quota.requests_remaining), DelayQuota)
                 /\ event' = Event("get_api_quota", "ok", <<req>>, quota)
                 /\ UNCHANGED dialogs

\* get_api_quota, credentials accepted: the request, the message, the entries
\* emptied, the clear
QuotaFetch ==
    \E quota \in Responses("quota") :
      LET req == [endpoint |-> "quota", args |-> <<>>]
      IN IF Raises(quota)
         THEN /\ event' = Event("get_api_quota", "fault", <<req>>, quota)
              /\ UNCHANGED <<entry, label, timers, dialogs, lastmsg>>
         ELSE /\ Show("quota_label", QuotaText(quota.requests_remaining), DelayQuota)
              /\ entry' = [entry EXCEPT !["admin_entry"] = <<>>,
                                        !["admin_password_entry"] = <<>>]
              /\ event' = Event("get_api_quota", "ok", <<req>>, quota)
              /\ UNCHANGED dialogs

get_api_quota ==
    /\ ~Modal
    /\ Len(timers) < MaxTimers
    /\ IF Falsy(check_admin) THEN QuotaInvalid ELSE QuotaFetch

\* the text ExchangeRatesDialog.__init__ inserts into its ScrolledText
RatesText(conversion_rates) == strip(subCommas(subBracesQuotes(strDict(conversion_rates))))

\* ExchangeRatesDialog(window, from_currency) followed by grab_set(): the
\* Toplevel exists from super().__init__ on, also when the request then fails
ExchangeRatesDialog(from_currency) ==
    /\ Len(dialogs) < MaxDialogs
    /\ \E exchange_rate \in Responses("latest") :
         LET req == [endpoint |-> "latest", args |-> <<from_currency>>]
         IN IF Raises(exchange_rate)
            THEN /\ dialogs' = Append(dialogs, [text |-> <<>>, grab |-> FALSE])
                 /\ event' = Event("get_exchange_rate", "dialog_fault", <<req>>, exchange_rate)
            ELSE /\ dialogs' = Append(dialogs,
                        [text |-> RatesText(exchange_rate.conversion_rates), grab |-> TRUE])
                 /\ event' = Event("get_exchange_rate", "dialog", <<req>>, exchange_rate)
    /\ UNCHANGED <<entry, label, timers, lastmsg>>

\* a prompt that also empties the target entry
RatePrompt_clearsTarget ==
    /\ Show("exchange_rate_label", PromptMsg, DelayPrompt)
    /\ entry' = [entry EXCEPT !["to_currency_entry"] = <<>>]
    /\ event' = Event("get_exchange_rate", "prompt", <<>>, NoResponse)
    /\ UNCHANGED dialogs

\* get_exchange_rate, no source currency: the prompt, its clear, return
RatePrompt ==
    /\ Show("exchange_rate_label", PromptMsg, DelayPrompt)
    /\ event' = Event("get_exchange_rate", "prompt", <<>>, NoResponse)
    /\ UNCHANGED <<entry, dialogs>>

\* a variant that empties the two entries before it sends the request
RateSingle_clearsFirst(from_currency, to_currency) ==
    \E response \in Responses("latest") :
      LET req == [endpoint |-> "latest", args |-> <<from_currency>>]
      IN /\ entry' = [entry EXCEPT !["from_currency_entry"] = <<>>,
                                   !["to_currency_entry"] = <<>>]
         /\ IF Raises(response) \/ ~HasKey(response.conversion_rates, to_currency)
            THEN /\ event' = Event("get_exchange_rate", "fault", <<req>>, response)
                 /\ UNCHANGED <<label, timers, dialogs, lastmsg>>
            ELSE /\ Show("exchange_rate_label",
                         RateText(from_currency, to_currency,
                                  Lookup(response.conversion_rates, to_currency)),
                         DelayRate)
                 /\ event' = Event("get_exchange_rate", "ok", <<req>>, response)
                 /\ UNCHANGED dialogs

\* get_exchange_rate, source and target given: the rate of the one target
RateSingle(from_currency, to_currency) ==
    \E response \in Responses("latest") :
      LET req == [endpoint |-> "latest", args |-> <<from_currency>>]
      IN IF Raises(response) \/ ~HasKey(response.conversion_rates, to_currency)
         THEN /\ event' = Event("get_exchange_rate", "fault", <<req>>, response)
              /\ UNCHANGED <<entry, label, timers, dialogs, lastmsg>>
         ELSE /\ Show("exchange_rate_label",
                      RateText(from_currency, to_currency,
                               Lookup(response.conversion_rates, to_currency)),
                      DelayRate)
              /\ entry' = [entry EXCEPT !["from_currency_entry"] = <<>>,
                                        !["to_currency_entry"] = <<>>]
              /\ event' = Event("get_exchange_rate", "ok", <<req>>, response)
              /\ UNCHANGED dialogs

\* entry.get().upper() if entry.get() else None
UpperOrNone(s) == IF Falsy(PyStr(s)) THEN PyNone ELSE PyStr(upper(s))

get_exchange_rate ==
    /\ ~Modal
    /\ Len(timers) < MaxTimers
    /\ LET from_currency == UpperOrNone(entry["from_currency_entry"])
           to_currency == UpperOrNone(entry["to_currency_entry"])
       IN IF Falsy(from_currency) THEN RatePrompt
          ELSE IF ~Falsy(to_currency) THEN RateSingle(from_currency.val, to_currency.val)
          ELSE ExchangeRatesDialog(from_currency.val)

convert_currency ==
    /\ ~Modal
    /\ Len(timers) < MaxTimers
    /\ LET from_currency == upper(entry["source_currency_entry"])
           to_currency == upper(entry["target_currency_entry"])
           amount == entry["amount_entry"]
           req == [endpoint |-> "pair", args |-> <<from_currency, to_currency, amount>>]
       IN \E conversion \in Responses("pair") :
            IF Raises(conversion)
            THEN /\ event' = Event("convert_currency", "fault", <<req>>, conversion)
                 /\ UNCHANGED <<entry, label, timers, dialogs, lastmsg>>
            ELSE /\ Show("display_result",
                         ResultText(from_currency, to_currency, conversion.conversion_result),
                         DelayResult)
                 /\ entry' = [entry EXCEPT !["source_currency_entry"] = <<>>,
                                           !["target_currency_entry"] = <<>>,
                                           !["amount_entry"] = <<>>]
                 /\ event' = Event("convert_currency", "ok", <<req>>, conversion)
                 /\ UNCHANGED dialogs

-----------------------------------------------------------------------------
(* The user and the event loop *)

\* the user edits one of the entries es of the main window
TypeIn(es) ==
    /\ ~Modal
    /\ \E e \in es : \E v \in Typed(e) :
         /\ entry[e] # v
         /\ entry' = [entry EXCEPT ![e] = v]
    /\ event' = Idle
    /\ UNCHANGED <<label, timers, dialogs, lastmsg>>

TypeConvert == TypeIn(ConvertEntries)
TypeRate == TypeIn(RateEntries)
TypeQuota == TypeIn(QuotaEntries)

\* the user closes a rates dialog
CloseDialog ==
    /\ \E i \in 1..Len(dialogs) :
         dialogs' = SubSeq(dialogs, 1, i - 1) \o SubSeq(dialogs, i + 1, Len(dialogs))
    /\ event' = Idle
    /\ UNCHANGED <<entry, label, timers, lastmsg>>

Due == timers # <<>> /\ timers[1].rem = 0

\* one unit of time passes while timers are pending and none is due
Tick ==
    /\ timers # <<>>
    /\ ~Due
    /\ timers' = [i \in 1..Len(timers) |-> [timers[i] EXCEPT !.rem = @ - 1]]
    /\ lastmsg' = [l \in Labels |->
                     [lastmsg[l] EXCEPT !.left = IF @ > 0 THEN @ - 1 ELSE 0]]
    /\ event' = Idle
    /\ UNCHANGED <<entry, label, dialogs>>

\* a callback that leaves the label as it is
Fire_keepsText ==
    /\ Due
    /\ timers' = Tail(timers)
    /\ lastmsg' = [lastmsg EXCEPT ![timers[1].lbl] =
                      IF @.status = "shown" /\ @.left = 0
                      THEN [status |-> "expired", text |-> <<>>, left |-> 0, solo |-> TRUE]
                      ELSE @]
    /\ event' = Idle
    /\ UNCHANGED <<entry, label, dialogs>>

\* the callback of the first due timer: lambda: label.config(text="")
Fire ==
    /\ Due
    /\ label' = [label EXCEPT ![timers[1].lbl] = <<>>]
    /\ timers' = Tail(timers)
    /\ lastmsg' = [lastmsg EXCEPT ![timers[1].lbl] =
                      IF @.status = "shown" /\ @.left = 0
                      THEN [status |-> "expired", text |-> <<>>, left |-> 0, solo |-> TRUE]
                      ELSE @]
    /\ event' = Idle
    /\ UNCHANGED <<entry, dialogs>>

\* In one run the user works with one panel of the window: the handlers share no
\* widget, and the timers of different labels do not interact.
Next ==
    \/ panel = "convert" /\ TypeConvert /\ UNCHANGED panel
    \/ panel = "convert" /\ convert_currency /\ UNCHANGED panel
    \/ panel = "rate" /\ TypeRate /\ UNCHANGED panel
    \/ panel = "rate" /\ get_exchange_rate /\ UNCHANGED panel
    \/ panel = "rate" /\ CloseDialog /\ UNCHANGED panel
    \/ panel = "quota" /\ TypeQuota /\ UNCHANGED panel
    \/ panel = "quota" /\ get_api_quota /\ UNCHANGED panel
    \/ Tick /\ UNCHANGED panel
    \/ Fire /\ UNCHANGED panel

Spec == Init /\ [][Next]_vars

\* time passes, and the event loop runs the callback of a due timer
LiveSpec ==
    Spec /\ WF_vars(Tick /\ UNCHANGED panel) /\ WF_vars(Fire /\ UNCHANGED panel)

-----------------------------------------------------------------------------
(* Properties *)

\* the step runs the handler cmd
Runs(cmd) == event'.cmd = cmd

\* the step adds exactly one timer, which clears label l after delay
Schedules(l, delay) ==
    \E i \in 1..Len(timers') :
      /\ timers'[i] = [lbl |-> l, rem |-> delay]
      /\ timers = SubSeq(timers', 1, i - 1) \o SubSeq(timers', i + 1, Len(timers'))

CredentialsMatch ==
    entry["admin_entry"] = ADMIN /\ entry["admin_password_entry"] = PASSWORD

CredentialsEmpty ==
    entry["admin_entry"] = <<>> /\ entry["admin_password_entry"] = <<>>

\* C1: Check Quota with credentials that are not the configured pair sends no
\* request, sets the quota label to "Invalid admin credentials!" and schedules
\* one clear of that label; after a successful quota fetch both credential
\* entries are empty.
C1_QuotaGate ==
    [][Runs("get_api_quota") =>
         /\ ~CredentialsMatch =>
              /\ event'.sent = <<>>
              /\ label'["quota_label"] = InvalidMsg
              /\ Schedules("quota_label", DelayInvalid)
         /\ (event'.sent # <<>> /\ event'.resp.kind = "ok") => CredentialsEmpty'
      ]_vars

\* C1 witness: Check Quota has refused a password one character off
C1_Witness ==
    /\ event.cmd = "get_api_quota"
    /\ event.sent = <<>>
    /\ entry["admin_entry"] = ADMIN
    /\ entry["admin_password_entry"] = <<"p", "w", "2">>
    /\ label["quota_label"] = InvalidMsg

\* C2 as stated: whenever Check Quota has validated the credentials, the two
\* credential entries are empty when the handler ends, whether the fetch
\* succeeded or failed.
C2_ClearedRegardless ==
    [][(Runs("get_api_quota") /\ CredentialsMatch) => CredentialsEmpty']_vars

\* C2 amended: once the credentials are validated, the two credential entries
\* are empty when the handler ends if the quota fetch succeeded, and hold what
\* they held before if the request or its parsing failed.
C2_ClearedOnSuccessOnly ==
    [][(Runs("get_api_quota") /\ CredentialsMatch) =>
         /\ event'.sent = <<[endpoint |-> "quota", args |-> <<>>]>>
         /\ IF event'.resp.kind = "ok"
            THEN CredentialsEmpty'
            ELSE entry' = entry /\ CredentialsMatch'
      ]_vars

\* C2 witness: a quota fetch has failed and the credentials are still in the entries
C2_Witness ==
    /\ event.cmd = "get_api_quota"
    /\ event.sent # <<>>
    /\ event.resp.kind \in {"transport", "notjson", "error"}
    /\ CredentialsMatch

\* C3: Get Rate with an empty source entry sends no request, opens no rates
\* dialog, sets the exchange-rate label to "Please enter the source currency!"
\* and leaves the target entry as it is.
C3_MissingSource ==
    [][(Runs("get_exchange_rate") /\ entry["from_currency_entry"] = <<>>) =>
         /\ event'.sent = <<>>
         /\ dialogs' = dialogs
         /\ label'["exchange_rate_label"] = PromptMsg
         /\ entry'["to_currency_entry"] = entry["to_currency_entry"]
      ]_vars

\* C3 witness: Get Rate has prompted for the source while a target is entered
C3_Witness ==
    /\ event.cmd = "get_exchange_rate"
    /\ entry["from_currency_entry"] = <<>>
    /\ entry["to_currency_entry"] = <<"E", "u", "r">>
    /\ label["exchange_rate_label"] = PromptMsg
    /\ event.sent = <<>>

\* what the typed codes are in upper case, and the API's numbers as Python prints them
Uppercase(code) ==
    CASE code = <<>> -> <<>>
      [] code = <<"u", "s", "d">> -> <<"U", "S", "D">>
      [] code = <<"E", "u", "r">> -> <<"E", "U", "R">>

Printed(number) ==
    CASE number = 905 -> <<"9", "0", ".", "5">>
      [] number = 10 -> <<"1", ".", "0">>
      [] number = 9 -> <<"0", ".", "9">>
      [] number = 11 -> <<"1", ".", "1">>
      [] number = 1605 -> <<"1", "6", "0", ".", "5">>

\* C4: a successful Convert sends exactly one pair request with the source and
\* target codes in upper case and the amount as typed, sets the result label to
\* "A to B: <conversion_result>" with A and B in upper case, and leaves the
\* three entries of the form empty.
C4_Convert ==
    [][(Runs("convert_currency") /\ event'.resp.kind = "ok") =>
         LET A == Uppercase(entry["source_currency_entry"])
             B == Uppercase(entry["target_currency_entry"])
             X == entry["amount_entry"]
         IN /\ event'.sent = <<[endpoint |-> "pair", args |-> <<A, B, X>>]>>
            /\ label'["display_result"] =
                 A \o <<" ", "t", "o", " ">> \o B \o <<":", " ">>
                 \o Printed(event'.resp.conversion_result)
            /\ \A e \in ConvertEntries : entry'[e] = <<>>
      ]_vars

\* C4 witness: "usd", "Eur", "2.5" have been converted and "USD to EUR: 90.5" is shown
C4_Witness ==
    /\ event.cmd = "convert_currency"
    /\ event.sent = <<[endpoint |-> "pair",
                       args |-> <<USD, EUR, <<"2", ".", "5">> >>]>>
    /\ label["display_result"] =
         <<"U", "S", "D", " ", "t", "o", " ", "E", "U", "R", ":", " ", "9", "0", ".", "5">>
    /\ \A e \in ConvertEntries : entry[e] = <<>>

\* C5: the credential check returns True if the two entries hold exactly the
\* configured pair and False for every other pair.
C5_ExactPair ==
    check_admin = PyBool(CredentialsMatch)

\* C6: a command never cancels a pending clear: every timer pending before a
\* handler runs is pending after it, the handler adding at most one.  (The
\* witness is the execution the claim speaks of.)
C6_NoCancel ==
    [][event'.cmd # "-" =>
         \/ timers' = timers
         \/ \E l \in Labels : \E delay \in {3, 10} : Schedules(l, delay)
      ]_vars

\* C6 witness: the message a later command wrote is gone although its own
\* delay has not elapsed, wiped by the clear of an earlier command
C6_Witness ==
    \E l \in Labels :
      /\ lastmsg[l].status = "shown"
      /\ lastmsg[l].left > 0
      /\ ~lastmsg[l].solo
      /\ label[l] = <<>>

\* the request of the step failed: transport, body, or a missing key
Failed ==
    \/ event'.resp.kind \in {"transport", "notjson", "error"}
    \/ /\ event'.cmd = "get_exchange_rate"
       /\ event'.resp.kind = "ok"
       /\ ~\E i \in 1..Len(event'.resp.conversion_rates) :
             event'.resp.conversion_rates[i][1] = Uppercase(entry["to_currency_entry"])

\* C7: when the request of Convert, of Get Rate with a target, or of Check
\* Quota fails, the handler ends with the labels, the entries and the pending
\* timers as they were, and nothing keeps the commands from being invoked.
C7_SilentAbort ==
    [][(/\ event'.cmd \in {"convert_currency", "get_exchange_rate", "get_api_quota"}
        /\ event'.sent # <<>>
        /\ event'.cmd = "get_exchange_rate" => entry["to_currency_entry"] # <<>>
        /\ Failed) =>
         /\ label' = label
         /\ entry' = entry
         /\ timers' = timers
         /\ dialogs' = dialogs
         /\ ~Modal'
      ]_vars

\* C7 witness: Get Rate has failed on a target that is not in conversion_rates,
\* with both entries still filled in
C7_Witness ==
    /\ event.cmd = "get_exchange_rate"
    /\ event.resp.kind = "ok"
    /\ event.resp.conversion_rates = << <<USD, 10>> >>
    /\ entry["from_currency_entry"] = <<"u", "s", "d">>
    /\ entry["to_currency_entry"] = <<"E", "u", "r">>
    /\ dialogs = <<>>

\* str.split("\n"), an empty text having no line
RECURSIVE SplitLines(_)
SplitLines(text) ==
    IF text = <<>> THEN <<>>
    ELSE IF \E i \in 1..Len(text) : text[i] = "\n"
    THEN LET k == CHOOSE i \in 1..Len(text) :
                    text[i] = "\n" /\ \A j \in 1..(i - 1) : text[j] # "\n"
         IN <<SubSeq(text, 1, k - 1)>>
            \o (IF k = Len(text) THEN << <<>> >> ELSE SplitLines(SubSeq(text, k + 1, Len(text))))
    ELSE <<text>>

\* a rates dialog has just been filled in from the response of the step
DialogShown ==
    /\ event.cmd = "get_exchange_rate"
    /\ event.resp.kind = "ok"
    /\ dialogs # <<>>
    /\ dialogs[Len(dialogs)].grab

ShownText == dialogs[Len(dialogs)].text
ShownRates == event.resp.conversion_rates

NoMapPunctuation(text) ==
    \A i \in 1..Len(text) : text[i] \notin {"{", "}", "'", ","}

\* C8 as stated: the text of the rates dialog holds no brace, quote or comma and
\* has one line per entry of the map, in the map's order, line i being
\* "CODE rate" for the i-th key and value.
C8_CodeRateLines ==
    DialogShown =>
      /\ NoMapPunctuation(ShownText)
      /\ Len(SplitLines(ShownText)) = Len(ShownRates)
      /\ \A i \in 1..Len(ShownRates) :
           SplitLines(ShownText)[i] = ShownRates[i][1] \o <<" ">> \o Printed(ShownRates[i][2])

\* C8 amended: the text of the rates dialog holds no brace, quote or comma and
\* has one line per entry of the map, in the map's order; the first line is
\* "CODE: rate" and every later line is " CODE: rate" (the colon of the map
\* syntax and the space after each comma stay), for the i-th key and value.
C8_CodeColonRateLines ==
    DialogShown =>
      /\ NoMapPunctuation(ShownText)
      /\ Len(SplitLines(ShownText)) = Len(ShownRates)
      /\ \A i \in 1..Len(ShownRates) :
           SplitLines(ShownText)[i] =
             (IF i = 1 THEN <<>> ELSE <<" ">>)
             \o ShownRates[i][1] \o <<":", " ">> \o Printed(ShownRates[i][2])

\* C8 witness: the dialog shows a map of three rates
C8_Witness ==
    /\ DialogShown
    /\ Len(ShownRates) = 3
    /\ Len(SplitLines(ShownText)) = 3

\* the delay each message is given
DelayOf(l, text) ==
    CASE l = "display_result" -> 10
      [] l = "quota_label" -> 3
      [] l = "exchange_rate_label" -> IF text = PromptMsg THEN 3 ELSE 10

HandlerText(l) == label[l] \notin {<<>>, InitialText[l]}

\* C10: a label that shows a message of a handler has a clear pending; and
\* unless commands keep being invoked, eventually no label shows a message of
\* a handler any more.
C10_MessagesExpire ==
    /\ [](\A l \in Labels : HandlerText(l) => Pending(l) # {})
    /\ ([]<>(event.cmd # "-") \/ <>[](\A l \in Labels : ~HandlerText(l)))

\* C10 witness: the quota label shows a handler's message and one clear of it is pending
C10_Witness ==
    /\ HandlerText("quota_label")
    /\ Cardinality(Pending("quota_label")) = 1

====
